---- MODULE Spec2Model ----
(***************************************************************************)
(* A model of feedly_extractor: the command-line run (cli.main), the       *)
(* pagination driver (ArticleExtractor.get_articles), the HTTP wrapper     *)
(* (FeedlyClient._make_request), category resolution and the progressive   *)
(* file writer (ProgressiveSaver).                                         *)
(*                                                                         *)
(* Conventions.  An Optional value is None (the empty tuple) or Some(x)    *)
(* (a one-element tuple).  A text whose characters matter (a category      *)
(* label, a query) is a sequence of one-character strings.  An article is  *)
(* identified by its position in the order the remote service served it.   *)
(* A file is None while it does not exist and Some(<<token, ...>>) once it *)
(* does; a token is a pair <<kind, article id>>.                           *)
(***************************************************************************)
EXTENDS Integers, Sequences, FiniteSets, TLC

VARIABLES pc,            \* where the run is: the call it is about to make
          retrying,      \* _make_request: the 429 wait is over, the re-issue is next
          ncalls,        \* number of _make_request calls started
          faults,        \* non-200 answers the remote service has given
          trace,         \* session requests and sleeps, in order
          remote,        \* the remote stream: items it holds, items and pages served
          opts,          \* the command line / FetchOptions
          newer_than,    \* get_articles locals
          older_than,
          stream_id,
          saver,         \* the ProgressiveSaver, None before it is constructed
          files,         \* the output files of the run's prefix
          all_articles,
          continuation,
          page,
          current_delay,
          stopped,       \* how the loop of get_articles was left, "" until it is
          returned,      \* what get_articles returned, None until it returns
          reported,      \* the user-facing messages printed, in order
          exit_code,     \* None while the process runs
          batches,       \* the batches handed to save_batch, in order
          lifecycle,     \* the calls made on the progressive saver, in order
          cats,          \* find_category_by_name: the listing, the query, the result
          query,
          found,
          article,       \* to_dict: the Article it is called on, None when there is none
          exported,      \* to_dict: the dictionaries returned, in order
          item,          \* from_feedly_data: the remote item it is called on, or None
          runs,          \* two runs side by side: where each is, its saver, its batches
          disk           \* two runs side by side: the files at each output path

vars == <<pc, retrying, ncalls, faults, trace, remote, opts, newer_than, older_than,
          stream_id, saver, files, all_articles, continuation, page, current_delay,
          stopped, returned, reported, exit_code, batches, lifecycle, cats, query,
          found,
          article, exported, item, runs, disk>>

(***************************************************************************)
(* Bounds of the model.                                                    *)
(***************************************************************************)
\* The most items the remote stream holds (besides the endless stream).
MaxAvailable == 5
\* The most items the remote service puts in one page (it is asked for PAGE_SIZE).
MaxPageItems == 2
\* The most non-200 answers the remote service gives in one run.
MaxFaults == 2
\* Config.SAFE_ARTICLE_LIMIT is 5000 (config.py:22); scaled to the model's streams.
SAFE_ARTICLE_LIMIT == 3
\* Config.PROGRESSIVE_DELAY_THRESHOLD is 2000 (config.py:23); scaled likewise.
PROGRESSIVE_DELAY_THRESHOLD == 2
\* The most batches handed to a ProgressiveSaver.
MaxBatches == 4
\* The most categories in a listing.
MaxItemId == 10
\* The most batches each of two runs side by side hands to its saver.
MaxSharedBatches == 2
MaxCats == 2

(***************************************************************************)
(* Program constants (config.py).  Delays between pages are kept in tenths *)
(* of a second.                                                            *)
(***************************************************************************)
PAGE_SIZE == 250
RATE_LIMIT_DELAY == 60
DEFAULT_DAYS_BACK == 7
API_DELAY == 5
MAX_DELAY == 30

None == <<>>
Some(x) == <<x>>
Val(o) == o[1]
\* Python truthiness of an Optional[int], of an Optional[str] kept as a string, and of
\* an Optional[str] kept as a sequence of characters.
TruthyInt(o) == o # None /\ Val(o) # 0
TruthyStr(o) == o # None /\ Val(o) # ""
TruthyText(o) == o # None /\ Val(o) # <<>>
Min(a, b) == IF a <= b THEN a ELSE b
Max(a, b) == IF a >= b THEN a ELSE b
Last(s) == s[Len(s)]

\* Python's s[:n]: the first n elements, or all but the last -n when n is negative.
SliceTo(s, n) ==
    IF n >= 0 THEN SubSeq(s, 1, Min(n, Len(s)))
    ELSE SubSeq(s, 1, Max(0, Len(s) + n))

(***************************************************************************)
(* Category resolution (client.py).                                        *)
(***************************************************************************)
\* str.lower() on the characters the model uses.
Lower(c) ==
    CASE c = "A" -> "a"
      [] c = "B" -> "b"
      [] c = "T" -> "t"
      [] c = "N" -> "n"
      [] OTHER -> c

LowerStr(s) == [i \in 1..Len(s) |-> Lower(s[i])]

\* Python's `needle in hay` on strings.
Contains(needle, hay) ==
    \E k \in 0..(Len(hay) - Len(needle)) : SubSeq(hay, k + 1, k + Len(needle)) = needle

MinOf(S) == CHOOSE x \in S : \A y \in S : x <= y

\* A variant of find_category_by_name: the partial-match loop runs first.
FindCategoryPartialFirst(categories, category_name) ==
    LET partial == {i \in 1..Len(categories) :
                       Contains(LowerStr(category_name), LowerStr(categories[i].label))}
    IN  IF partial # {} THEN Some(categories[MinOf(partial)]) ELSE None

\* find_category_by_name on a fetched listing: the first exact match, else the first
\* partial match, else None.
FindCategoryByName(categories, category_name) ==
    LET exact == {i \in 1..Len(categories) :
                     LowerStr(category_name) = LowerStr(categories[i].label)}
        partial == {i \in 1..Len(categories) :
                       Contains(LowerStr(category_name), LowerStr(categories[i].label))}
    IN  IF exact # {} THEN Some(categories[MinOf(exact)])
        ELSE IF partial # {} THEN Some(categories[MinOf(partial)])
        ELSE None

\* Category.from_feedly_data on the i-th entry of a listing of labels.
CategoryIds == <<"c1", "c2", "c3", "c4">>
Category(i, label) == [id |-> CategoryIds[i], label |-> label]
Listing(labels) == [i \in 1..Len(labels) |-> Category(i, labels[i])]

TechNews == <<"T", "e", "c", "h", " ", "N", "e", "w", "s">>
Tech == <<"T", "e", "c", "h">>
tech == <<"t", "e", "c", "h">>
News == <<"N", "e", "w", "s">>

(***************************************************************************)
(* Dates (utils.py).  A timestamp is kept in days since the epoch.         *)
(***************************************************************************)
DateArgs == {None, Some("2024-01-01"), Some("2024-02-01"), Some("01/02/2024")}

\* get_timestamp_from_date: None stands for the ValueError of a bad format.
get_timestamp_from_date(date_str) ==
    CASE date_str = "2024-01-01" -> Some(19723)
      [] date_str = "2024-02-01" -> Some(19754)
      [] OTHER -> None

\* get_timestamp_from_days_ago, the run being on day 20760.
get_timestamp_from_days_ago(days) == 20760 - days

\* validate_date_range: error is "" when the range is accepted.
validate_date_range(start_date, end_date, days_back) ==
    LET from == IF TruthyStr(start_date) THEN get_timestamp_from_date(Val(start_date))
                ELSE Some(get_timestamp_from_days_ago(
                              IF days_back # 0 THEN days_back ELSE DEFAULT_DAYS_BACK))
        to == IF TruthyStr(end_date) THEN get_timestamp_from_date(Val(end_date)) ELSE None
    IN  IF from = None \/ (TruthyStr(end_date) /\ to = None)
        THEN [error |-> "invalid_date_format", newer_than |-> 0, older_than |-> None]
        ELSE IF to # None /\ Val(to) <= Val(from)
        THEN [error |-> "end_date_must_be_after_start_date",
              newer_than |-> 0, older_than |-> None]
        ELSE [error |-> "", newer_than |-> Val(from), older_than |-> to]

(***************************************************************************)
(* Articles and the output files (models.py, file_handlers.py).            *)
(***************************************************************************)
\* An Article: the fields the writers of the run tell articles apart by.
Article(id, url, read) == [id |-> id, url |-> url, read |-> read]

\* The empty string, as a URL.  A non-empty URL is a pair: where the item carried it
\* ("canonicalUrl" or "href") and the item's id.
NoUrl == <<>>

\* A JSON value of the unread key as Python holds it: its type and its text.
PyTrue == <<"bool", "True">>
PyFalse == <<"bool", "False">>
PyZero == <<"int", "0">>
PyOne == <<"int", "1">>
PyNone == <<"NoneType", "None">>
PyText == <<"str", "false">>

\* The unread key of the items the remote service serves, by id: absent, true, false.
UnreadOf(id) ==
    CASE id % 3 = 1 -> None
      [] id % 3 = 2 -> Some(PyTrue)
      [] OTHER -> Some(PyFalse)

\* The id-th item the remote service serves, as the keys from_feedly_data resolves the
\* URL and the read flag from (None: the key is absent).  The items come in five
\* shapes, by id: a canonical URL only; neither key; an alternate link only; an empty
\* canonical URL and an alternate link without href; both.
RawItem(id) ==
    LET shape == ((id - 1) % 5) + 1
        canonical == <<"canonicalUrl", id>>
        link == [href |-> Some(<<"href", id>>)]
    IN  CASE shape = 1 -> [id |-> id, canonicalUrl |-> Some(canonical), alternate |-> None,
                           unread |-> UnreadOf(id)]
          [] shape = 2 -> [id |-> id, canonicalUrl |-> None, alternate |-> None,
                           unread |-> UnreadOf(id)]
          [] shape = 3 -> [id |-> id, canonicalUrl |-> None, alternate |-> Some(<<link>>),
                           unread |-> UnreadOf(id)]
          [] shape = 4 -> [id |-> id, canonicalUrl |-> Some(NoUrl),
                           alternate |-> Some(<<[href |-> None]>>),
                           unread |-> UnreadOf(id)]
          [] OTHER -> [id |-> id, canonicalUrl |-> Some(canonical),
                       alternate |-> Some(<<link>>), unread |-> UnreadOf(id)]

\* dict.get(key, '') on an optional key.
GetOr(o) == IF o = None THEN NoUrl ELSE Val(o)

\* from_feedly_data: the canonical URL, or else the href of the first alternate link.
ResolveUrl(data) ==
    LET url == GetOr(data.canonicalUrl)
    IN  IF url = NoUrl /\ data.alternate # None /\ Val(data.alternate) # <<>>
        THEN GetOr(Val(data.alternate)[1].href)
        ELSE url

\* Python's v == False: False itself and the numbers equal to it.
EqualsFalse(v) == v \in {PyFalse, PyZero}

\* A variant of the read flag: an item without the unread key counts as read.
ReadFlagDefaultRead(data) ==
    EqualsFalse(IF data.unread = None THEN PyFalse ELSE Val(data.unread))

\* from_feedly_data: data.get('unread', True) == False
ReadFlag(data) == EqualsFalse(IF data.unread = None THEN PyTrue ELSE Val(data.unread))

\* Article.from_feedly_data
FromFeedlyData(data) == Article(data.id, ResolveUrl(data), ReadFlag(data))

Kinds == {"csv", "json", "urls"}
Formats == {"all", "csv", "json", "urls"}
NoFiles == [k \in Kinds |-> None]
\* The files an earlier run with the same prefix left.
OldFiles == [k \in Kinds |-> Some(<<<<"old", 0>>>>)]

Open == <<"[", 0>>
Close == <<"]", 0>>
Sep == <<",", 0>>
Header == <<"header", 0>>
Obj(a) == <<"obj", a.id>>
Row(a) == <<"row", a.id>>
\* A line of the URL list is the URL itself.
Url(a) == <<"url", a.url>>

\* A variant of the appending writers: the file is opened with 'w'.
AppendToOverwrite(f, tokens) == Some(tokens)

\* open(path, 'a') and a write: the file is created when it does not exist.
AppendTo(f, tokens) == Some((IF f = None THEN <<>> ELSE Val(f)) \o tokens)

Rows(articles) == [i \in 1..Len(articles) |-> Row(articles[i])]
HasUrl(a) == a.url # NoUrl
\* A variant of the URL writers: a line is written for every article.
UrlsUnfiltered(articles) == [i \in 1..Len(articles) |-> Url(articles[i])]
Urls(articles) ==
    LET with == SelectSeq(articles, HasUrl)
    IN  [i \in 1..Len(with) |-> Url(with[i])]

\* _append_to_json from the i-th article on: a separator before every object but the
\* very first of the file.
RECURSIVE AppendToJson(_, _, _)
AppendToJson(saved_count, articles, i) ==
    IF i > Len(articles) THEN <<>>
    ELSE (IF saved_count > 0 \/ i > 1 THEN <<Sep>> ELSE <<>>)
         \o <<Obj(articles[i])>> \o AppendToJson(saved_count, articles, i + 1)

\* ProgressiveSaver.__init__: a file attribute is TRUE when the format asks for it.
NewSaver(output_format) ==
    [csv_file |-> output_format \in {"all", "csv"},
     json_file |-> output_format \in {"all", "json"},
     urls_file |-> output_format \in {"all", "urls"},
     files_initialized |-> FALSE,
     saved_count |-> 0]

\* A variant of _initialize_files: all three files are truncated.
InitializeFilesAll(sv, fs) ==
    [k \in Kinds |-> IF k = "json" THEN Some(<<Open>>) ELSE Some(<<>>)]

\* _initialize_files: each requested file is truncated.
InitializeFiles(sv, fs) ==
    [k \in Kinds |->
        CASE k = "csv" /\ sv.csv_file -> Some(<<>>)
          [] k = "json" /\ sv.json_file -> Some(<<Open>>)
          [] k = "urls" /\ sv.urls_file -> Some(<<>>)
          [] OTHER -> fs[k]]

\* A variant of save_batch: the header is written with every non-empty batch.
SaveBatchHeaderEachTime(sv, fs, articles) ==
    IF articles = <<>> THEN [saver |-> sv, files |-> fs]
    ELSE
      LET fs1 == IF sv.csv_file THEN [fs EXCEPT !["csv"] = Some(<<Header>>)] ELSE fs
          fs2 == IF sv.csv_file
                 THEN [fs1 EXCEPT !["csv"] = AppendTo(@, Rows(articles))] ELSE fs1
          fs3 == IF sv.urls_file /\ Urls(articles) # <<>>
                 THEN [fs2 EXCEPT !["urls"] = AppendTo(@, Urls(articles))] ELSE fs2
          fs4 == IF sv.json_file
                 THEN [fs3 EXCEPT !["json"] =
                          AppendTo(@, AppendToJson(sv.saved_count, articles, 1))]
                 ELSE fs3
      IN  [saver |-> [sv EXCEPT !.files_initialized = @ \/ sv.csv_file,
                                !.saved_count = @ + Len(articles)],
           files |-> fs4]

\* save_batch: the saver and the files after it.
SaveBatch(sv, fs, articles) ==
    IF articles = <<>> THEN [saver |-> sv, files |-> fs]
    ELSE
      LET header == sv.csv_file /\ ~sv.files_initialized
          fs1 == IF header THEN [fs EXCEPT !["csv"] = Some(<<Header>>)] ELSE fs
          fs2 == IF sv.csv_file
                 THEN [fs1 EXCEPT !["csv"] = AppendTo(@, Rows(articles))] ELSE fs1
          fs3 == IF sv.urls_file /\ Urls(articles) # <<>>
                 THEN [fs2 EXCEPT !["urls"] = AppendTo(@, Urls(articles))] ELSE fs2
          fs4 == IF sv.json_file
                 THEN [fs3 EXCEPT !["json"] =
                          AppendTo(@, AppendToJson(sv.saved_count, articles, 1))]
                 ELSE fs3
      IN  [saver |-> [sv EXCEPT !.files_initialized = @ \/ header,
                                !.saved_count = @ + Len(articles)],
           files |-> fs4]

\* finalize: the files after it.
Finalize(sv, fs) ==
    IF sv.json_file /\ sv.saved_count > 0
    THEN [fs EXCEPT !["json"] = AppendTo(@, <<Close>>)]
    ELSE fs

\* A variant of save_articles: the writers open the files with 'a'.
SaveArticlesAppend(fs, articles, output_format) ==
    IF articles = <<>> THEN fs
    ELSE [k \in Kinds |->
            CASE k = "csv" /\ output_format \in {"all", "csv"} ->
                   AppendTo(fs[k], <<Header>> \o Rows(articles))
              [] k = "json" /\ output_format \in {"all", "json"} ->
                   AppendTo(fs[k], <<Open>> \o AppendToJson(0, articles, 1) \o <<Close>>)
              [] k = "urls" /\ output_format \in {"all", "urls"} ->
                   AppendTo(fs[k], Urls(articles))
              [] OTHER -> fs[k]]

\* ArticleExtractor.save_articles: each requested file is overwritten.
SaveArticles(fs, articles, output_format) ==
    IF articles = <<>> THEN fs
    ELSE [k \in Kinds |->
            CASE k = "csv" /\ output_format \in {"all", "csv"} ->
                   Some(<<Header>> \o Rows(articles))
              [] k = "json" /\ output_format \in {"all", "json"} ->
                   Some(<<Open>> \o AppendToJson(0, articles, 1) \o <<Close>>)
              [] k = "urls" /\ output_format \in {"all", "urls"} ->
                   Some(Urls(articles))
              [] OTHER -> fs[k]]

(***************************************************************************)
(* The HTTP wrapper (client.py).                                           *)
(***************************************************************************)
\* The status one session.request can end in; "500" stands for every error status
\* other than 401 and 429.  (An exception that is no HTTPError, such as a timeout, is
\* handled nowhere but in main, where it ends the run as a "500" does.)
Statuses == {"200", "401", "429", "500"}

NoParams == [streamId |-> None, count |-> None, unreadOnly |-> None,
             continuation |-> None, newerThan |-> None, olderThan |-> None]
ProfileRequest == [method |-> "GET", url |-> "/profile", params |-> NoParams]
CategoriesRequest == [method |-> "GET", url |-> "/categories", params |-> NoParams]

\* A variant of get_stream_content: the continuation token is never sent.
StreamRequestNoContinuation(sid, newer, older, count, unread_only, cont) ==
    [method |-> "GET", url |-> "/streams/contents",
     params |-> [streamId |-> Some(sid),
                 count |-> Some(count),
                 unreadOnly |-> Some(IF unread_only THEN "true" ELSE "false"),
                 continuation |-> None,
                 newerThan |-> Some(newer),
                 olderThan |-> IF TruthyInt(older) THEN older ELSE None]]

\* A variant of get_stream_content: the time bounds are sent with the token too.
StreamRequestAlwaysBounds(sid, newer, older, count, unread_only, cont) ==
    [method |-> "GET", url |-> "/streams/contents",
     params |-> [streamId |-> Some(sid),
                 count |-> Some(count),
                 unreadOnly |-> Some(IF unread_only THEN "true" ELSE "false"),
                 continuation |-> IF TruthyInt(cont) THEN cont ELSE None,
                 newerThan |-> Some(newer),
                 olderThan |-> IF TruthyInt(older) THEN older ELSE None]]

\* get_stream_content: the request it builds.
StreamRequest(sid, newer, older, count, unread_only, cont) ==
    [method |-> "GET", url |-> "/streams/contents",
     params |-> [streamId |-> Some(sid),
                 count |-> Some(count),
                 unreadOnly |-> Some(IF unread_only THEN "true" ELSE "false"),
                 continuation |-> IF TruthyInt(cont) THEN cont ELSE None,
                 newerThan |-> IF TruthyInt(cont) THEN None ELSE Some(newer),
                 olderThan |-> IF ~TruthyInt(cont) /\ TruthyInt(older) THEN older ELSE None]]

\* A session request with the status it was answered with.
RequestEvent(call, req, status) ==
    [ev |-> "request", call |-> call, method |-> req.method, url |-> req.url,
     params |-> req.params, status |-> status, dur |-> 0, items |-> 0, token |-> None]
\* time.sleep in _make_request (seconds).
WaitEvent(call, secs) ==
    [ev |-> "wait", call |-> call, method |-> "", url |-> "",
     params |-> NoParams, status |-> "", dur |-> secs, items |-> 0, token |-> None]
\* time.sleep between two pages (current_delay).
PauseEvent(delay) ==
    [ev |-> "pause", call |-> 0, method |-> "", url |-> "",
     params |-> NoParams, status |-> "", dur |-> delay, items |-> 0, token |-> None]
\* The body of a stream-content response as get_articles reads it: the number of its
\* items and its continuation token.
ResponseEvent(call, n, token) ==
    [ev |-> "response", call |-> call, method |-> "", url |-> "",
     params |-> NoParams, status |-> "", dur |-> 0, items |-> n, token |-> token]

\* A variant of _make_request: a 429 is waited for and re-issued every time.
MakeRequestAlwaysRetry(status, is_retry) ==
    IF status = "200" THEN "return"
    ELSE IF status = "429" THEN "retry"
    ELSE "raise"

\* A variant of _make_request: every error status is waited for and re-issued once.
MakeRequestRetryAnyError(status, is_retry) ==
    IF status = "200" THEN "return"
    ELSE IF ~is_retry THEN "retry"
    ELSE "raise"

\* _make_request after one session.request: return the response, wait and re-issue, or
\* raise.  is_retry: this request was the re-issue.
MakeRequestNext(status, is_retry) ==
    IF status = "200" THEN "return"
    ELSE IF status = "429" /\ ~is_retry THEN "retry"
    ELSE "raise"

\* The session requests and sleeps of one step of _make_request.
MakeRequestEvents(call, req, status, is_retry) ==
    <<RequestEvent(call, req, status)>>
    \o (IF MakeRequestNext(status, is_retry) = "retry"
        THEN <<WaitEvent(call, RATE_LIMIT_DELAY)>> ELSE <<>>)

CallId == IF retrying THEN ncalls ELSE ncalls + 1

\* One session.request of the call in progress, answered with status; more: what the
\* caller lets follow in the same step.
Request(req, status, more) ==
    /\ status # "200" => faults < MaxFaults
    /\ faults' = IF status = "200" THEN faults ELSE faults + 1
    /\ ncalls' = CallId
    /\ trace' = trace \o MakeRequestEvents(CallId, req, status, retrying) \o more
    /\ retrying' = (MakeRequestNext(status, retrying) = "retry")

(***************************************************************************)
(* The run (cli.py, extractor.py).                                         *)
(***************************************************************************)
\* The stream that never runs out: it holds no known number of items.
Endless == None
Listings == {<<>>, <<News>>, <<TechNews, Tech>>}
Caps == {None, Some(-1), Some(0), Some(1), Some(SAFE_ARTICLE_LIMIT),
         Some(SAFE_ARTICLE_LIMIT + 2)}

DefaultOptions ==
    [start_date |-> None, end_date |-> None, days |-> DEFAULT_DAYS_BACK,
     token |-> TRUE, list_categories |-> FALSE, category |-> None,
     unread_only |-> FALSE, max_articles |-> None, api_delay |-> API_DELAY,
     output_prefix |-> Some("feedly_articles"), format |-> "all",
     no_progressive_save |-> FALSE, quiet |-> FALSE]

AcceptedDates ==
    {d \in DateArgs \X DateArgs :
        /\ ~(TruthyStr(d[2]) /\ ~TruthyStr(d[1]))
        /\ validate_date_range(d[1], d[2], DEFAULT_DAYS_BACK).error = ""}

\* The command lines of the model: the runs that vary the dates and the token, the run
\* that lists the folders, the runs that vary what is fetched (dates and folder, and
\* unread articles only), and the runs that vary how much is fetched and how it is
\* written.
Options ==
    {[DefaultOptions EXCEPT !.start_date = s, !.end_date = e, !.token = t] :
        s \in DateArgs, e \in DateArgs, t \in BOOLEAN}
    \cup {[DefaultOptions EXCEPT !.list_categories = TRUE]}
    \cup {[DefaultOptions EXCEPT !.start_date = d[1], !.end_date = d[2], !.category = c] :
             d \in AcceptedDates, c \in {None, Some(tech)}}
    \cup {[DefaultOptions EXCEPT !.start_date = Some("2024-01-01"),
                                 !.end_date = Some("2024-02-01"), !.unread_only = TRUE]}
    \cup {[DefaultOptions EXCEPT !.max_articles = m, !.no_progressive_save = p] :
             m \in Caps, p \in BOOLEAN}
    \cup {[DefaultOptions EXCEPT !.format = f, !.no_progressive_save = p] :
             f \in Formats, p \in BOOLEAN}

loopVars == <<newer_than, older_than, stream_id, saver, files, all_articles,
              continuation, page, current_delay, batches, lifecycle, stopped>>
catVars == <<cats, query, found>>
dictVars == <<article, exported, item, runs, disk>>

Init ==
    /\ pc = "main"
    /\ retrying = FALSE
    /\ ncalls = 0
    /\ faults = 0
    /\ trace = <<>>
    /\ remote \in [available : {Some(a) : a \in 0..MaxAvailable} \cup {Endless},
                  served : {0}, pages : {0}]
    /\ opts \in Options
    /\ newer_than = 0
    /\ older_than = None
    /\ stream_id = None
    /\ saver = None
    /\ files \in {NoFiles, OldFiles}
    /\ all_articles = <<>>
    /\ continuation = None
    /\ page = 0
    /\ current_delay = 0
    /\ stopped = ""
    /\ returned = None
    /\ reported = <<>>
    /\ exit_code = None
    /\ batches = <<>>
    /\ lifecycle = <<>>
    /\ cats = <<>>
    /\ query = None
    /\ found = None
    /\ article = None
    /\ exported = <<>>
    /\ runs = <<>>
    /\ disk = <<>>
    /\ item = None

\* sys.exit(code), or main returning (code 0), after a last message.
Exit(code, message) ==
    /\ pc' = "done"
    /\ exit_code' = Some(code)
    /\ reported' = Append(reported, message)

\* main's handler of a RequestException.
ApiError(status) == IF status = "429" THEN "rate_limit_tips" ELSE "api_error"

\* main up to its first request: validate_args, validate_token, the --list-categories
\* branch, and get_articles up to get_user_profile.
MainStart ==
    /\ pc = "main"
    /\ IF TruthyStr(opts.end_date) /\ ~TruthyStr(opts.start_date)
       THEN Exit(1, "end_date_requires_start_date")
       ELSE IF ~opts.token
       THEN Exit(1, "token_not_found")
       ELSE /\ pc' = IF opts.list_categories THEN "list_categories" ELSE "get_user_profile"
            /\ UNCHANGED <<exit_code, reported>>
    /\ UNCHANGED <<retrying, ncalls, faults, trace, remote, opts, dictVars,
                   loopVars, returned,
                   catVars>>

\* get_articles from the saver's construction to the first page request.
StartLoop(sid) ==
    /\ stream_id' = Some(sid)
    /\ IF ~opts.no_progressive_save /\ TruthyStr(opts.output_prefix)
       THEN /\ saver' = Some(NewSaver(opts.format))
            /\ files' = InitializeFiles(NewSaver(opts.format), files)
            /\ lifecycle' = <<"__init__">>
       ELSE UNCHANGED <<saver, files, lifecycle>>
    /\ all_articles' = <<>>
    /\ continuation' = None
    /\ page' = 1
    /\ current_delay' = opts.api_delay * PROGRESSIVE_DELAY_THRESHOLD
    /\ pc' = "get_stream_content"
    /\ UNCHANGED <<batches, stopped, returned, reported, exit_code>>

\* get_articles: get_user_profile, validate_date_range and _get_stream_id up to its
\* request.
GetUserProfile ==
    /\ pc = "get_user_profile"
    /\ \E status \in Statuses :
        /\ Request(ProfileRequest, status, <<>>)
        /\ LET next == MakeRequestNext(status, retrying)
               v == validate_date_range(opts.start_date, opts.end_date, opts.days)
           IN  CASE next = "retry" ->
                      UNCHANGED <<pc, loopVars, returned, reported, exit_code>>
                 [] next = "raise" ->
                      Exit(1, ApiError(status)) /\ UNCHANGED <<loopVars, returned>>
                 [] next = "return" /\ v.error # "" ->
                      Exit(1, v.error) /\ UNCHANGED <<loopVars, returned>>
                 [] next = "return" /\ v.error = "" /\ TruthyText(opts.category) ->
                      /\ newer_than' = v.newer_than
                      /\ older_than' = v.older_than
                      /\ pc' = "find_category_by_name"
                      /\ UNCHANGED <<stream_id, saver, files, all_articles, continuation,
                                     page, current_delay, batches, lifecycle, stopped, returned,
                                     reported, exit_code>>
                 [] OTHER ->
                      /\ newer_than' = v.newer_than
                      /\ older_than' = v.older_than
                      /\ StartLoop("global.all")
    /\ UNCHANGED <<remote, opts, dictVars, catVars>>

\* A variant of _get_stream_id: all feeds are used when no folder matches.
GetStreamIdOrGlobal(c) == IF c = None THEN Some("global.all") ELSE Some(Val(c).id)

\* The stream _get_stream_id names when a folder is asked for and find_category_by_name
\* returned c: the folder's id, None when no folder was found.
GetStreamId(c) == IF c = None THEN None ELSE Some(Val(c).id)

\* _get_stream_id: find_category_by_name on the listing the request returns.
FindCategory ==
    /\ pc = "find_category_by_name"
    /\ \E status \in Statuses :
        /\ Request(CategoriesRequest, status, <<>>)
        /\ LET next == MakeRequestNext(status, retrying)
           IN  CASE next = "retry" ->
                      UNCHANGED <<pc, stream_id, saver, files, all_articles, continuation,
                                  page, current_delay, batches, lifecycle, stopped, returned,
                                  reported, exit_code, catVars>>
                 [] next = "raise" ->
                      /\ Exit(1, ApiError(status))
                      /\ UNCHANGED <<stream_id, saver, files, all_articles, continuation,
                                     page, current_delay, batches, lifecycle, stopped, returned,
                                     catVars>>
                 [] OTHER ->
                      \E labels \in Listings :
                        LET c == FindCategoryByName(Listing(labels), Val(opts.category))
                        IN  /\ cats' = Listing(labels)
                            /\ query' = opts.category
                            /\ found' = c
                            /\ IF GetStreamId(c) = None
                               THEN /\ pc' = "get_categories"
                                    /\ UNCHANGED <<stream_id, saver, files, all_articles,
                                                   continuation, page, current_delay,
                                                   batches, lifecycle, stopped, returned, reported,
                                                   exit_code>>
                               ELSE StartLoop(Val(GetStreamId(c)))
    /\ UNCHANGED <<remote, opts, dictVars, newer_than, older_than>>

\* _get_stream_id when no folder matches: the folders are fetched again and listed, and
\* get_articles returns the empty list.
GetCategories ==
    /\ pc = "get_categories"
    /\ \E status \in Statuses :
        /\ Request(CategoriesRequest, status, <<>>)
        /\ LET next == MakeRequestNext(status, retrying)
           IN  CASE next = "retry" -> UNCHANGED <<pc, returned, reported, exit_code>>
                 [] next = "raise" -> Exit(1, ApiError(status)) /\ UNCHANGED returned
                 [] OTHER ->
                      /\ returned' = Some(<<>>)
                      /\ reported' = Append(reported, "folder_not_found")
                      /\ pc' = "returned"
                      /\ UNCHANGED exit_code
    /\ UNCHANGED <<remote, opts, dictVars, loopVars, catVars>>

\* main --list-categories: ArticleExtractor.list_categories.
ListCategories ==
    /\ pc = "list_categories"
    /\ \E status \in Statuses :
        /\ Request(CategoriesRequest, status, <<>>)
        /\ LET next == MakeRequestNext(status, retrying)
           IN  CASE next = "retry" -> UNCHANGED <<pc, reported, exit_code>>
                 [] next = "raise" -> Exit(1, ApiError(status))
                 [] OTHER -> Exit(0, "categories_listed")
    /\ UNCHANGED <<remote, opts, dictVars, loopVars, returned, catVars>>

\* The pages the remote service can answer the next stream request with: n items and
\* whether a continuation token comes with them.  A page without a token is the last
\* one; the endless stream has none, and no empty page.
PageResponses ==
    {r \in [n : 0..MaxPageItems, more : BOOLEAN] :
        IF remote.available = Endless THEN r.more /\ r.n > 0
        ELSE /\ remote.served + r.n <= Val(remote.available)
             /\ (~r.more => remote.served + r.n = Val(remote.available))}

\* The items of such a page, converted by Article.from_feedly_data.
PageArticles(r) == [i \in 1..r.n |-> FromFeedlyData(RawItem(remote.served + i))]

\* The delay before the next page, in 1/(10 * PROGRESSIVE_DELAY_THRESHOLD) seconds:
\* current_delay unless count has reached the threshold.
NextDelay(count, api_delay, delay) ==
    IF count >= PROGRESSIVE_DELAY_THRESHOLD
    THEN Min(MAX_DELAY * PROGRESSIVE_DELAY_THRESHOLD,
             api_delay * Min(3 * PROGRESSIVE_DELAY_THRESHOLD, count))
    ELSE delay

\* A variant of the stop conditions: the result is not truncated at the cap.
StopNoTruncate(count, cap, token) ==
    CASE TruthyInt(cap) /\ count >= Val(cap) -> "ceiling"
      [] count >= SAFE_ARTICLE_LIMIT -> "ceiling"
      [] ~TruthyInt(token) -> "end"
      [] OTHER -> "continue"

\* A variant of the stop conditions: the safety ceiling is not applied.
StopNoCeiling(count, cap, token) ==
    CASE TruthyInt(cap) /\ count >= Val(cap) -> "cap"
      [] ~TruthyInt(token) -> "end"
      [] OTHER -> "continue"

\* The stop conditions after a non-empty page, in the order of the code: count articles
\* are accumulated and the response carried token.
Stop(count, cap, token) ==
    CASE TruthyInt(cap) /\ count >= Val(cap) -> "cap"
      [] count >= SAFE_ARTICLE_LIMIT -> "ceiling"
      [] ~TruthyInt(token) -> "end"
      [] OTHER -> "continue"

\* A variant of what is saved: the page is cut at the cap before it is saved.
BatchSavedUpToCap(batch, before, cap) ==
    IF TruthyInt(cap) /\ Val(cap) >= 0
    THEN SliceTo(batch, Max(0, Val(cap) - Len(before)))
    ELSE batch

\* What the loop hands to save_batch: batch_articles, the whole page just converted,
\* whatever was accumulated before it and whatever the cap.
BatchSaved(batch, before, cap) == batch

\* A variant of the result: the list is cut to SAFE_ARTICLE_LIMIT at the ceiling.
ResultCutAtCeiling(stop, all, cap) ==
    IF stop = "cap" THEN SliceTo(all, Val(cap))
    ELSE IF stop = "ceiling" THEN SliceTo(all, SAFE_ARTICLE_LIMIT)
    ELSE all

\* A variant of the result: the cap keeps the articles fetched last.
ResultKeepsTail(stop, all, cap) ==
    IF stop = "cap"
    THEN SubSeq(all, Len(all) - Len(SliceTo(all, Val(cap))) + 1, Len(all))
    ELSE all

\* The list the loop is left with after a non-empty page: the accumulated articles,
\* cut by all_articles[:max_articles] when the cap ended the loop.
Result(stop, all, cap) == IF stop = "cap" THEN SliceTo(all, Val(cap)) ELSE all

\* A variant of the HTTPError handler of the loop: the partial result is dropped.
OnHttpErrorDropPartial(status, articles) ==
    IF status \in {"401", "429"} THEN Some(<<>>) ELSE None

\* A variant of the HTTPError handler of the loop: every status ends the loop with the
\* partial result.
OnHttpErrorCatchAll(status, articles) == Some(articles)

\* The HTTPError handler of the loop: what get_articles returns, None when the error
\* propagates.
OnHttpError(status, articles) ==
    IF status \in {"401", "429"} THEN Some(articles) ELSE None

\* A variant of the end of an iteration: the sleep is taken before the stop conditions
\* are looked at.
AfterPageSleepFirst(stop, delay) == <<PauseEvent(delay)>>

\* The end of an iteration after a non-empty page: the loop sleeps only when it goes
\* on to request the next page.
AfterPage(stop, delay) == IF stop = "continue" THEN <<PauseEvent(delay)>> ELSE <<>>

\* A variant of the loop's end: get_articles returns without finalize.
LeaveWithoutFinalize(how, articles, sv, fs, token, calls) ==
    /\ stopped' = how
    /\ all_articles' = articles
    /\ saver' = sv
    /\ files' = fs
    /\ lifecycle' = calls
    /\ continuation' = token
    /\ returned' = Some(articles)
    /\ pc' = "returned"
    /\ UNCHANGED <<page, current_delay, reported, exit_code>>

\* The loop is left by a break: finalize, and get_articles returns; calls are the calls
\* made on the saver until then.
Leave(how, articles, sv, fs, token, calls) ==
    /\ stopped' = how
    /\ all_articles' = articles
    /\ saver' = sv
    /\ files' = IF sv # None THEN Finalize(Val(sv), fs) ELSE fs
    /\ lifecycle' = IF sv # None THEN Append(calls, "finalize") ELSE calls
    /\ continuation' = token
    /\ returned' = Some(articles)
    /\ pc' = "returned"
    /\ UNCHANGED <<page, current_delay, reported, exit_code>>

\* One iteration of the loop of get_articles: get_stream_content and all that follows
\* its response until the next request.
FetchPage ==
    /\ pc = "get_stream_content"
    /\ \E status \in Statuses, r \in PageResponses :
        LET req == StreamRequest(Val(stream_id), newer_than, older_than, PAGE_SIZE,
                                 opts.unread_only, continuation)
            next == MakeRequestNext(status, retrying)
            batch == PageArticles(r)
            token == IF r.more THEN Some(remote.pages + 1) ELSE None
            all == all_articles \o batch
            handed == BatchSaved(batch, all_articles, opts.max_articles)
            saved == IF saver # None THEN SaveBatch(Val(saver), files, handed)
                     ELSE [saver |-> None, files |-> files]
            sv == IF saver # None THEN Some(saved.saver) ELSE None
            stop == Stop(Len(all), opts.max_articles, token)
            delay == NextDelay(Len(all), opts.api_delay, current_delay)
            response == ResponseEvent(CallId, r.n, token)
            called == IF saver # None THEN Append(lifecycle, "save_batch") ELSE lifecycle
        IN  CASE next = "retry" ->
                   /\ Request(req, status, <<>>)
                   /\ UNCHANGED <<pc, remote, saver, files, all_articles, continuation,
                                  page, current_delay, batches, lifecycle, stopped, returned,
                                  reported, exit_code>>
              [] next = "raise" /\ OnHttpError(status, all_articles) # None ->
                   /\ Request(req, status, <<>>)
                   /\ returned' = OnHttpError(status, all_articles)
                   /\ reported' = Append(reported, IF status = "401"
                                                   THEN "authentication_failed"
                                                   ELSE "rate_limit_exceeded")
                   /\ pc' = "returned"
                   /\ stopped' = "http_error"
                   /\ UNCHANGED <<remote, saver, files, all_articles, continuation, page,
                                  current_delay, batches, lifecycle, exit_code>>
              [] next = "raise" /\ OnHttpError(status, all_articles) = None ->
                   /\ Request(req, status, <<>>)
                   /\ Exit(1, ApiError(status))
                   /\ UNCHANGED <<remote, saver, files, all_articles, continuation, page,
                                  current_delay, batches, lifecycle, stopped, returned>>
              [] next = "return" /\ r.n = 0 ->
                   /\ Request(req, status, <<response>>)
                   /\ remote' = [remote EXCEPT !.pages = @ + 1]
                   /\ Leave("empty", all_articles, saver, files, continuation, lifecycle)
                   /\ UNCHANGED batches
              [] next = "return" /\ r.n > 0 /\ stop = "continue" ->
                   /\ Request(req, status, <<response>> \o AfterPage(stop, delay))
                   /\ remote' = [remote EXCEPT !.served = @ + r.n, !.pages = @ + 1]
                   /\ all_articles' = all
                   /\ saver' = sv
                   /\ files' = saved.files
                   /\ batches' = IF saver # None THEN Append(batches, handed) ELSE batches
                   /\ lifecycle' = called
                   /\ continuation' = token
                   /\ page' = page + 1
                   /\ current_delay' = delay
                   /\ UNCHANGED <<pc, stopped, returned, reported, exit_code>>
              [] OTHER ->
                   /\ Request(req, status, <<response>> \o AfterPage(stop, delay))
                   /\ remote' = [remote EXCEPT !.served = @ + r.n, !.pages = @ + 1]
                   /\ batches' = IF saver # None THEN Append(batches, handed) ELSE batches
                   /\ Leave(stop, Result(stop, all, opts.max_articles),
                            sv, saved.files,
                            IF stop = "end" THEN token ELSE continuation,
                            called)
    /\ UNCHANGED <<opts, dictVars, newer_than, older_than, stream_id, catVars>>

\* A variant of main: the empty result is not told apart.
AfterFetchNoEmptyCheck(articles, no_progressive_save, quiet) ==
    (IF no_progressive_save THEN <<"saving_data">> ELSE <<>>)
    \o (IF ~quiet THEN <<"summary">> ELSE <<>>)

\* What main does with the result of get_articles, as the messages it prints: the
\* "no articles" outcome, or the bulk save (when progressive saving is off) and the
\* summary.
AfterFetch(articles, no_progressive_save, quiet) ==
    IF articles = <<>> THEN <<"no_articles_found">>
    ELSE (IF no_progressive_save THEN <<"saving_data">> ELSE <<>>)
         \o (IF ~quiet THEN <<"summary">> ELSE <<>>)

\* main after get_articles has returned.
MainFinish ==
    /\ pc = "returned"
    /\ LET does == AfterFetch(Val(returned), opts.no_progressive_save, opts.quiet)
       IN  /\ files' = IF \E i \in 1..Len(does) : does[i] = "saving_data"
                        THEN SaveArticles(files, Val(returned), opts.format) ELSE files
           /\ reported' = reported \o does
    /\ pc' = "done"
    /\ exit_code' = Some(0)
    /\ UNCHANGED <<retrying, ncalls, faults, trace, remote, opts, dictVars,
                   newer_than, older_than,
                   stream_id, saver, all_articles, continuation, page, current_delay,
                   batches, lifecycle, stopped, returned, catVars>>

\* KeyboardInterrupt inside main's try block.
Interrupt ==
    /\ pc \in {"get_user_profile", "find_category_by_name", "get_categories",
               "get_stream_content", "list_categories", "returned"}
    /\ Exit(1, "cancelled")
    /\ UNCHANGED <<retrying, ncalls, faults, trace, remote, opts, dictVars,
                   loopVars, returned,
                   catVars>>

Next ==
    \/ MainStart
    \/ GetUserProfile
    \/ FindCategory
    \/ GetCategories
    \/ ListCategories
    \/ FetchPage
    \/ MainFinish
    \/ Interrupt

Spec == Init /\ [][Next]_vars

\* The run keeps going: the process is one thread that is never suspended for good,
\* every request returns or raises within API_TIMEOUT, and every sleep ends.
FairSpec == Spec /\ WF_vars(Next)

(***************************************************************************)
(* find_category_by_name on its own: every listing and query of the        *)
(* bounds, and the listing <<Tech News, Tech>> with the query tech.          *)
(***************************************************************************)
Alphabet == {"a", "A", "b"}
Labels == UNION {[1..n -> Alphabet] : n \in 0..2}
LabelLists == UNION {[1..n -> Labels] : n \in 0..MaxCats}

\* The variables of the run, for a specification that runs no command line.
NoRun ==
    /\ retrying = FALSE
    /\ ncalls = 0
    /\ faults = 0
    /\ trace = <<>>
    /\ remote = [available |-> Some(0), served |-> 0, pages |-> 0]
    /\ newer_than = 0
    /\ older_than = None
    /\ stream_id = None
    /\ all_articles = <<>>
    /\ continuation = None
    /\ page = 0
    /\ current_delay = 0
    /\ stopped = ""
    /\ returned = None
    /\ reported = <<>>
    /\ exit_code = None

InitCategory ==
    /\ pc = "find_category_by_name"
    /\ NoRun
    /\ opts = DefaultOptions
    /\ saver = None
    /\ files = NoFiles
    /\ batches = <<>>
    /\ lifecycle = <<>>
    /\ \/ cats \in {Listing(l) : l \in LabelLists} /\ query \in {Some(q) : q \in Labels}
       \/ cats = Listing(<<TechNews, Tech>>) /\ query = Some(tech)
    /\ found = None
    /\ article = None
    /\ exported = <<>>
    /\ runs = <<>>
    /\ disk = <<>>
    /\ item = None

\* find_category_by_name(query) on the listing cats.
Resolve ==
    /\ pc = "find_category_by_name"
    /\ found' = FindCategoryByName(cats, Val(query))
    /\ pc' = "resolved"
    /\ UNCHANGED <<retrying, ncalls, faults, trace, remote, opts, dictVars,
                   loopVars, returned,
                   reported, exit_code, cats, query>>

NextCategory == Resolve

SpecCategory == InitCategory /\ [][NextCategory]_vars

(***************************************************************************)
(* A ProgressiveSaver on its own: constructed over files that exist or     *)
(* not, handed any batches, finalized once.                                *)
(***************************************************************************)
\* The sizes of a batch: up to three articles.
BatchSizes == 0..3

\* The articles handed over so far.
RECURSIVE Flatten(_)
Flatten(bs) == IF bs = <<>> THEN <<>> ELSE Flatten(SubSeq(bs, 1, Len(bs) - 1)) \o Last(bs)

\* A batch of n articles: the items after the first count, converted.
Batch(count, n) == [i \in 1..n |-> FromFeedlyData(RawItem(count + i))]

InitSaver ==
    /\ pc = "new"
    /\ NoRun
    /\ opts \in {[DefaultOptions EXCEPT !.format = f] : f \in Formats}
    /\ saver = None
    /\ files \in {NoFiles, OldFiles}
    /\ batches = <<>>
    /\ lifecycle = <<>>
    /\ cats = <<>>
    /\ query = None
    /\ found = None
    /\ article = None
    /\ exported = <<>>
    /\ runs = <<>>
    /\ disk = <<>>
    /\ item = None

saverFrame == <<retrying, ncalls, faults, trace, remote, opts, dictVars,
                newer_than, older_than,
                stream_id, all_articles, continuation, page, current_delay, stopped,
                returned, reported, exit_code, catVars>>

\* ProgressiveSaver(output_prefix, output_format)
SaverNew ==
    /\ pc = "new"
    /\ saver' = Some(NewSaver(opts.format))
    /\ files' = InitializeFiles(NewSaver(opts.format), files)
    /\ lifecycle' = <<"__init__">>
    /\ pc' = "accumulating"
    /\ UNCHANGED <<batches, saverFrame>>

\* save_batch(articles)
SaverSaveBatch ==
    /\ pc = "accumulating"
    /\ Len(batches) < MaxBatches
    /\ \E n \in BatchSizes :
        LET batch == Batch(Len(Flatten(batches)), n)
            saved == SaveBatch(Val(saver), files, batch)
        IN  /\ saver' = Some(saved.saver)
            /\ files' = saved.files
            /\ batches' = Append(batches, batch)
            /\ lifecycle' = Append(lifecycle, "save_batch")
    /\ UNCHANGED <<pc, saverFrame>>

\* finalize()
SaverFinalize ==
    /\ pc = "accumulating"
    /\ files' = Finalize(Val(saver), files)
    /\ lifecycle' = Append(lifecycle, "finalize")
    /\ pc' = "finalized"
    /\ UNCHANGED <<saver, batches, saverFrame>>

NextSaver ==
    \/ SaverNew
    \/ SaverSaveBatch
    \/ SaverFinalize

SpecSaver == InitSaver /\ [][NextSaver]_vars

(***************************************************************************)
(* Article.to_dict on its own: called twice on any Article of a bounded    *)
(* set.                                                                    *)
(***************************************************************************)
\* The Articles of the model: six attributes vary, each other attribute has a value
\* of its own.
Articles ==
    {[id |-> i, title |-> t, url |-> u, author |-> "an author",
      published_date |-> "2024-01-01T00:00:00", crawled_date |-> "2024-01-02T00:00:00",
      source_title |-> "a source", source_url |-> "a source url",
      source_stream_id |-> "feed/1", summary |-> "a summary", content |-> c,
      engagement |-> e, language |-> "en", keywords |-> "k1, k2",
      categories |-> "a category", tags |-> "a tag", read |-> r,
      visual_url |-> "a visual url",
      word_count |-> IF c = "" THEN 0 ELSE 2] :
        i \in {"", "entry/1"}, t \in {"", "a title"}, u \in {"", "a url"},
        c \in {"", "two words"}, e \in {0, 7}, r \in BOOLEAN}

\* A variant of to_dict: two values are exchanged.
ToDictExchanged(a) ==
    [id |-> a.id, title |-> a.title, url |-> a.url, author |-> a.author,
     published_date |-> a.crawled_date, crawled_date |-> a.published_date,
     source_title |-> a.source_title, source_url |-> a.source_url,
     source_stream_id |-> a.source_stream_id, summary |-> a.summary,
     content |-> a.content, engagement |-> a.engagement, language |-> a.language,
     keywords |-> a.keywords, categories |-> a.categories, tags |-> a.tags,
     read |-> a.read, visual_url |-> a.visual_url, word_count |-> a.word_count]

\* Article.to_dict
to_dict(a) ==
    [id |-> a.id, title |-> a.title, url |-> a.url, author |-> a.author,
     published_date |-> a.published_date, crawled_date |-> a.crawled_date,
     source_title |-> a.source_title, source_url |-> a.source_url,
     source_stream_id |-> a.source_stream_id, summary |-> a.summary,
     content |-> a.content, engagement |-> a.engagement, language |-> a.language,
     keywords |-> a.keywords, categories |-> a.categories, tags |-> a.tags,
     read |-> a.read, visual_url |-> a.visual_url, word_count |-> a.word_count]

InitArticle ==
    /\ pc = "to_dict"
    /\ NoRun
    /\ opts = DefaultOptions
    /\ saver = None
    /\ files = NoFiles
    /\ batches = <<>>
    /\ lifecycle = <<>>
    /\ cats = <<>>
    /\ query = None
    /\ found = None
    /\ article \in {Some(a) : a \in Articles}
    /\ exported = <<>>
    /\ runs = <<>>
    /\ disk = <<>>
    /\ item = None

\* article.to_dict(), a first and a second time.
ToDict ==
    /\ pc \in {"to_dict", "to_dict_again"}
    /\ exported' = Append(exported, to_dict(Val(article)))
    /\ pc' = IF pc = "to_dict" THEN "to_dict_again" ELSE "exported"
    /\ UNCHANGED <<article, item, runs, disk, retrying, ncalls, faults, trace, remote, opts,
                   loopVars, returned, reported, exit_code, catVars>>

NextArticle == ToDict

SpecArticle == InitArticle /\ [][NextArticle]_vars

(***************************************************************************)
(* Article.from_feedly_data on its own (models.py): one remote item, with  *)
(* any value of its unread key, is converted.                              *)
(***************************************************************************)
Unreads == {None, Some(PyTrue), Some(PyFalse), Some(PyZero), Some(PyOne), Some(PyNone),
            Some(PyText)}
Items == {[RawItem(id) EXCEPT !.unread = u] : id \in 1..MaxItemId, u \in Unreads}

InitItem ==
    /\ pc = "from_feedly_data"
    /\ NoRun
    /\ opts = DefaultOptions
    /\ saver = None
    /\ files = NoFiles
    /\ batches = <<>>
    /\ lifecycle = <<>>
    /\ cats = <<>>
    /\ query = None
    /\ found = None
    /\ article = None
    /\ exported = <<>>
    /\ runs = <<>>
    /\ disk = <<>>
    /\ item \in {Some(d) : d \in Items}

\* Article.from_feedly_data(item)
Convert ==
    /\ pc = "from_feedly_data"
    /\ article' = Some(FromFeedlyData(Val(item)))
    /\ pc' = "converted"
    /\ UNCHANGED <<item, exported, runs, disk, retrying, ncalls, faults, trace, remote, opts,
                   loopVars, returned, reported, exit_code, catVars>>

NextItem == Convert

SpecItem == InitItem /\ [][NextItem]_vars

(***************************************************************************)
(* Two runs side by side with the same output prefix: each constructs its  *)
(* own ProgressiveSaver, hands it batches and finalizes it, and the steps  *)
(* of the two interleave in any order.  A step is one call on a saver;     *)
(* each call opens, writes and closes the files it touches.                *)
(***************************************************************************)
RunIds == {1, 2}

\* A variant of the output path: each run writes under a path of its own.
OutputPathPerRun(run, prefix) == <<prefix, run>>

\* FileHandler._get_output_path for the runs of one day in one working directory: the
\* path depends on the prefix alone, not on the run.
OutputPath(run, prefix) == <<prefix>>

PathOf(run) == OutputPath(run, Val(opts.output_prefix))

\* The articles of a run's batch: the runs fetch different items.
RunBatch(run, count, n) ==
    [i \in 1..n |-> FromFeedlyData(RawItem(MaxItemId * run + count + i))]

InitShared ==
    /\ pc = "side_by_side"
    /\ NoRun
    /\ opts \in {[DefaultOptions EXCEPT !.format = f] : f \in {"all", "json"}}
    /\ saver = None
    /\ files = NoFiles
    /\ batches = <<>>
    /\ lifecycle = <<>>
    /\ cats = <<>>
    /\ query = None
    /\ found = None
    /\ article = None
    /\ exported = <<>>
    /\ item = None
    /\ runs = [r \in RunIds |-> [at |-> "new", saver |-> None, batches |-> <<>>]]
    /\ disk = [p \in {PathOf(r) : r \in RunIds} |-> NoFiles]

sharedFrame == <<pc, retrying, ncalls, faults, trace, remote, opts, newer_than,
                 older_than, stream_id, saver, files, all_articles, continuation, page,
                 current_delay, stopped, returned, reported, exit_code, batches, catVars,
                 article, exported, item>>

\* ProgressiveSaver(output_prefix, output_format) in run r
RunNew(r) ==
    /\ runs[r].at = "new"
    /\ runs' = [runs EXCEPT ![r].at = "accumulating",
                            ![r].saver = Some(NewSaver(opts.format))]
    /\ disk' = [disk EXCEPT ![PathOf(r)] = InitializeFiles(NewSaver(opts.format), @)]
    /\ lifecycle' = Append(lifecycle, [run |-> r, call |-> "__init__"])
    /\ UNCHANGED sharedFrame

\* save_batch(articles) in run r
RunSaveBatch(r) ==
    /\ runs[r].at = "accumulating"
    /\ Len(runs[r].batches) < MaxSharedBatches
    /\ \E n \in 1..MaxPageItems :
        LET batch == RunBatch(r, Val(runs[r].saver).saved_count, n)
            saved == SaveBatch(Val(runs[r].saver), disk[PathOf(r)], batch)
        IN  /\ runs' = [runs EXCEPT ![r].saver = Some(saved.saver),
                                    ![r].batches = Append(@, batch)]
            /\ disk' = [disk EXCEPT ![PathOf(r)] = saved.files]
    /\ lifecycle' = Append(lifecycle, [run |-> r, call |-> "save_batch"])
    /\ UNCHANGED sharedFrame

\* finalize() in run r
RunFinalize(r) ==
    /\ runs[r].at = "accumulating"
    /\ runs' = [runs EXCEPT ![r].at = "finalized"]
    /\ disk' = [disk EXCEPT ![PathOf(r)] = Finalize(Val(runs[r].saver), @)]
    /\ lifecycle' = Append(lifecycle, [run |-> r, call |-> "finalize"])
    /\ UNCHANGED sharedFrame

NextShared ==
    \E r \in RunIds :
        \/ RunNew(r)
        \/ RunSaveBatch(r)
        \/ RunFinalize(r)

SpecShared == InitShared /\ [][NextShared]_vars

(***************************************************************************)
(* The delay between pages on its own: the loop of get_articles with any   *)
(* --delay, fed non-empty pages with a continuation token, without its     *)
(* stop conditions, so that the delay is computed for every count up to    *)
(* past three times the threshold.                                         *)
(***************************************************************************)
\* The values of --delay, in tenths of a second: the default, half of MAX_DELAY and
\* one above MAX_DELAY.
Delays == {API_DELAY, MAX_DELAY \div 2, MAX_DELAY + 10}

InitDelay ==
    /\ pc = "get_stream_content"
    /\ retrying = FALSE
    /\ ncalls = 0
    /\ faults = 0
    /\ trace = <<>>
    /\ remote = [available |-> Endless, served |-> 0, pages |-> 0]
    /\ opts \in {[DefaultOptions EXCEPT !.api_delay = d, !.no_progressive_save = TRUE] :
                    d \in Delays}
    /\ newer_than = 0
    /\ older_than = None
    /\ stream_id = Some("global.all")
    /\ saver = None
    /\ files = NoFiles
    /\ all_articles = <<>>
    /\ continuation = None
    /\ page = 1
    /\ current_delay = opts.api_delay * PROGRESSIVE_DELAY_THRESHOLD
    /\ stopped = ""
    /\ returned = None
    /\ reported = <<>>
    /\ exit_code = None
    /\ batches = <<>>
    /\ lifecycle = <<>>
    /\ cats = <<>>
    /\ query = None
    /\ found = None
    /\ article = None
    /\ exported = <<>>
    /\ runs = <<>>
    /\ disk = <<>>
    /\ item = None

\* One iteration of the loop that goes on to the next page: the page is accumulated,
\* the delay is computed and slept.
NextPage ==
    /\ pc = "get_stream_content"
    /\ \E n \in 1..MaxPageItems :
        LET batch == PageArticles([n |-> n, more |-> TRUE])
            all == all_articles \o batch
            token == Some(remote.pages + 1)
            delay == NextDelay(Len(all), opts.api_delay, current_delay)
        IN  /\ Len(all) <= 3 * PROGRESSIVE_DELAY_THRESHOLD + 1
            /\ trace' = trace \o <<ResponseEvent(page, n, token)>>
                                \o AfterPage("continue", delay)
            /\ remote' = [remote EXCEPT !.served = @ + n, !.pages = @ + 1]
            /\ all_articles' = all
            /\ continuation' = token
            /\ page' = page + 1
            /\ current_delay' = delay
    /\ UNCHANGED <<pc, retrying, ncalls, faults, opts, dictVars, newer_than, older_than,
                   stream_id, saver, files, batches, lifecycle, stopped, returned, reported,
                   exit_code, catVars>>

NextOfDelay == NextPage

SpecDelay == InitDelay /\ [][NextOfDelay]_vars

(***************************************************************************)
(* What the properties below read off a state.                             *)
(***************************************************************************)
IsRequest(e, url) == e.ev = "request" /\ e.url = url
StreamRequests == {i \in 1..Len(trace) : IsRequest(trace[i], "/streams/contents")}
\* The get_stream_content calls made: each is one _make_request call.
StreamCalls == {trace[i].call : i \in StreamRequests}
\* The session requests whose error _make_request raised to its caller: those not
\* followed by the wait before a re-issue.
Raised ==
    {i \in 1..Len(trace) :
        /\ trace[i].ev = "request"
        /\ trace[i].status # "200"
        /\ (i = Len(trace) \/ trace[i + 1].ev # "wait")}
\* The first n articles the remote service served, in the order served.
Served(n) == [i \in 1..n |-> FromFeedlyData(RawItem(i))]
HasCap == opts.max_articles # None /\ Val(opts.max_articles) >= 1
\* min(N, available): the endless stream holds more than any N.
CapOrAvailable ==
    IF remote.available = Endless THEN Val(opts.max_articles)
    ELSE Min(Val(opts.max_articles), Val(remote.available))
Fetched == returned # None /\ stream_id # None
Says(message) == \E i \in 1..Len(reported) : reported[i] = message

\* C1 as claimed: with a cap N >= 1, get_articles returns exactly min(N, available)
\* articles (read here of the runs in which no request failed and no page was empty).
C1_ExactlyMinOfCapAndAvailable ==
    (Fetched /\ HasCap /\ stopped \in {"cap", "ceiling", "end"}) =>
        /\ Len(Val(returned)) = CapOrAvailable
        /\ Len(Val(returned)) <= Val(opts.max_articles)

\* C1, amended: with a cap N >= 1 the returned list never has more than N elements nor
\* more than the stream holds; it has exactly min(N, available) when the loop ends at
\* the cap or at the end of the stream (a page without continuation token); the safety
\* ceiling ends the loop before the cap only for N > SAFE_ARTICLE_LIMIT.
C1_AtMostCap ==
    (Fetched /\ HasCap) =>
        /\ Len(Val(returned)) <= CapOrAvailable
        /\ stopped \in {"cap", "end"} => Len(Val(returned)) = CapOrAvailable
        /\ stopped = "ceiling" => Val(opts.max_articles) > SAFE_ARTICLE_LIMIT

\* C1's case: the cap cut the last page.
C1_Witness ==
    /\ Fetched /\ HasCap /\ stopped = "cap"
    /\ Len(Val(returned)) = Val(opts.max_articles)
    /\ remote.served > Val(opts.max_articles)

\* C3: with no cap, once SAFE_ARTICLE_LIMIT articles or more are accumulated no further
\* stream-content request is issued.
C3_NoRequestPastCeiling ==
    [][(~TruthyInt(opts.max_articles) /\ Len(all_articles) >= SAFE_ARTICLE_LIMIT)
         => StreamRequests' = StreamRequests]_vars

\* C3's case: the ceiling ended the loop although pages remained.
C3_Witness ==
    /\ pc = "returned" /\ ~TruthyInt(opts.max_articles)
    /\ stopped = "ceiling"
    /\ Len(all_articles) >= SAFE_ARTICLE_LIMIT
    /\ remote.available # Endless /\ remote.served < Val(remote.available)

\* C4: a stream-content request that fails with 401 or 429 is the last request of the
\* run, and get_articles returns the articles of the pages fetched before it, in order.
C4_PartialResultOnAuthOrRateLimit ==
    \A i \in StreamRequests \cap Raised :
        trace[i].status \in {"401", "429"} =>
            /\ i = Len(trace)
            /\ pc \in {"returned", "done"}
            /\ returned = Some(Served(remote.served))
            /\ Len(Val(returned)) = remote.served

\* C4's case: the failure came after a page was fetched.
C4_Witness ==
    /\ pc = "returned"
    /\ \E i \in StreamRequests \cap Raised : trace[i].status \in {"401", "429"}
    /\ remote.served > 0
    /\ returned = Some(Served(remote.served))

\* C5 as claimed: when a run whose start date is later than its end date fails with the
\* ordering error, it has issued no request.
C5_OrderingErrorBeforeAnyRequest ==
    (/\ opts.start_date = Some("2024-02-01") /\ opts.end_date = Some("2024-01-01")
     /\ Says("end_date_must_be_after_start_date")) =>
        trace = <<>>

\* C6 as claimed: the exit code is 1 exactly when the run ended on a validation failure,
\* an absent token, an HTTP error raised by a request, or an interrupt.
C6_ExitCodeOneOnEveryFailure ==
    pc = "done" =>
        (exit_code = Some(1) <=>
            \/ Says("end_date_requires_start_date")
            \/ Says("invalid_date_format")
            \/ Says("end_date_must_be_after_start_date")
            \/ Says("token_not_found")
            \/ Raised # {}
            \/ Says("cancelled"))

\* C7: when the first page has no items, get_articles returns the empty list after one
\* get_stream_content call, and main (unless interrupted) says "no articles found" and
\* ends with code 0, without the bulk save and without the summary.
C7_EmptyFirstPage ==
    (remote.pages >= 1 /\ remote.served = 0) =>
        /\ returned = Some(<<>>)
        /\ Cardinality(StreamCalls) = 1
        /\ remote.pages = 1
        /\ (pc = "done" /\ ~Says("cancelled")) =>
              /\ exit_code = Some(0)
              /\ Last(reported) = "no_articles_found"
              /\ ~Says("saving_data") /\ ~Says("summary")
              /\ opts.no_progressive_save => files \in {NoFiles, OldFiles}

\* C7's case: such a run, with progressive saving off, has ended.
C7_Witness ==
    /\ remote.pages = 1 /\ remote.served = 0
    /\ pc = "done" /\ exit_code = Some(0)
    /\ opts.no_progressive_save
    /\ Says("no_articles_found")

ExactAt(i) == LowerStr(Val(query)) = LowerStr(cats[i].label)
PartialAt(i) == Contains(LowerStr(Val(query)), LowerStr(cats[i].label))

\* C8: find_category_by_name returns a category whose label equals the query but for
\* case when there is one, wherever it is listed; otherwise the first listed category
\* whose label contains the query but for case; otherwise None.
C8_ExactThenFirstPartial ==
    pc = "resolved" =>
        IF \E i \in 1..Len(cats) : ExactAt(i)
        THEN found # None /\ \E i \in 1..Len(cats) : ExactAt(i) /\ Val(found) = cats[i]
        ELSE IF \E i \in 1..Len(cats) : PartialAt(i)
        THEN \E i \in 1..Len(cats) :
                /\ PartialAt(i)
                /\ \A j \in 1..(i - 1) : ~PartialAt(j)
                /\ found = Some(cats[i])
        ELSE found = None

\* C8's case: the exact match is listed after a category that only contains the query.
C8_Witness ==
    /\ pc = "resolved"
    /\ \E i, j \in 1..Len(cats) :
         i < j /\ PartialAt(i) /\ ~ExactAt(i) /\ ExactAt(j) /\ found = Some(cats[j])

TechExample == pc = "resolved" /\ cats = Listing(<<TechNews, Tech>>) /\ query = Some(tech)

\* C9 as claimed: for the listing "Tech News", "Tech" and the query "tech" the category
\* "Tech News" is returned.
C9_ReturnsTechNews == TechExample => found = Some(Category(1, TechNews))

\* C9, amended: "Tech" equals the query but for case, so it is the exact match and it is
\* the category returned, although "Tech News" is listed before it.
C9_ReturnsTech == TechExample => found = Some(Category(2, Tech))

\* C9's case: the example has been resolved.
C9_Witness == TechExample /\ found # None

\* The events of one _make_request call.
EventsOf(call) == {i \in 1..Len(trace) : trace[i].call = call}

\* C10: a 429 answer to the first request of a _make_request call is followed by one
\* wait of RATE_LIMIT_DELAY and then one re-issue of the same request; a re-issue that
\* fails ends the call with its error, so a call issues at most two requests.
C10_OneWaitOneReissue ==
    /\ \A i \in 1..Len(trace) :
         (/\ trace[i].ev = "request" /\ trace[i].status = "429"
          /\ (i = 1 \/ trace[i - 1].call # trace[i].call)) =>
            /\ i + 1 <= Len(trace)
            /\ trace[i + 1] = WaitEvent(trace[i].call, RATE_LIMIT_DELAY)
            /\ i + 1 = Len(trace) => retrying
            /\ i + 2 <= Len(trace) =>
                 /\ trace[i + 2].ev = "request"
                 /\ trace[i + 2].call = trace[i].call
                 /\ trace[i + 2].method = trace[i].method
                 /\ trace[i + 2].url = trace[i].url
                 /\ trace[i + 2].params = trace[i].params
                 /\ trace[i + 2].status # "200" => i + 2 \in Raised /\ i + 2 = Len(trace)
    /\ \A c \in 1..ncalls :
         /\ Cardinality({i \in EventsOf(c) : trace[i].ev = "request"}) <= 2
         /\ Cardinality({i \in EventsOf(c) : trace[i].ev = "wait"}) <= 1
    /\ \A i \in 1..Len(trace) :
         trace[i].ev = "wait" => i > 1 /\ trace[i - 1].ev = "request"
                                       /\ trace[i - 1].status = "429"

\* C10's case: a re-issued request failed too.
C10_Witness ==
    \E i \in 1..Len(trace) :
        /\ i + 2 <= Len(trace)
        /\ trace[i].ev = "request" /\ trace[i].status = "429"
        /\ trace[i + 1].ev = "wait"
        /\ trace[i + 2].ev = "request" /\ trace[i + 2].status = "429"

(***************************************************************************)
(* The structured-record file.                                             *)
(***************************************************************************)
\* f is one array of the articles given: an opening bracket, the objects in order with
\* a separator between two, a closing bracket.
WellFormedArray(f, articles) ==
    LET k == Len(articles)
    IN  /\ f # None
        /\ Len(Val(f)) = 2 + k + Max(0, k - 1)
        /\ Val(f)[1] = Open
        /\ Last(Val(f)) = Close
        /\ \A j \in 1..k : Val(f)[2 * j] = Obj(articles[j])
        /\ \A j \in 1..(k - 1) : Val(f)[2 * j + 1] = Sep

\* C2 as claimed: after any batches and finalize, the structured-record file is one
\* well-formed array of the articles saved, also when there are none.
C2_WellFormedAfterFinalize ==
    (pc = "finalized" /\ Val(saver).json_file) =>
        WellFormedArray(files["json"], Flatten(batches))

(***************************************************************************)
(* The files of a progressive run.                                         *)
(***************************************************************************)
\* f is the array of the articles given, left open: an opening bracket, the objects in
\* order with a separator between two, and nothing after the last object.
OpenArray(f, articles) ==
    LET k == Len(articles)
    IN  /\ f # None
        /\ Len(Val(f)) = 1 + k + Max(0, k - 1)
        /\ Val(f)[1] = Open
        /\ \A j \in 1..k : Val(f)[2 * j] = Obj(articles[j])
        /\ \A j \in 1..(k - 1) : Val(f)[2 * j + 1] = Sep

\* f is the table of the articles given: the header, then one row each, in order.
TableOf(f, articles) ==
    /\ f # None
    /\ Len(Val(f)) = 1 + Len(articles)
    /\ Val(f)[1] = Header
    /\ \A j \in 1..Len(articles) : Val(f)[j + 1] = Row(articles[j])

\* f is the URL list of the articles given: one line for each that has a URL, in
\* order, and nothing else.
UrlListOf(f, articles) ==
    LET with == {j \in 1..Len(articles) : articles[j].url # NoUrl}
    IN  /\ f # None
        /\ Len(Val(f)) = Cardinality(with)
        /\ \A j \in with :
              Val(f)[Cardinality({i \in with : i <= j})] = <<"url", articles[j].url>>

\* A get_stream_content call of the loop ended in an HTTP error.
AbortedFetch == StreamRequests \cap Raised # {}

\* C11: when a progressive run is aborted by an HTTP error (401, 429 or another status)
\* after at least one page was saved, the tabular file and the URL list hold every
\* record of the pages saved, and the structured-record file holds them after its
\* opening bracket, with no closing bracket.
C11_AbortLeavesSavedPages ==
    (AbortedFetch /\ saver # None /\ remote.served >= 1) =>
        /\ Val(saver).saved_count = remote.served
        /\ Val(saver).csv_file => TableOf(files["csv"], Served(remote.served))
        /\ Val(saver).urls_file => UrlListOf(files["urls"], Served(remote.served))
        /\ Val(saver).json_file => OpenArray(files["json"], Served(remote.served))

\* C11's case: an error other than 401 and 429 aborted a run that writes all formats
\* after two pages, one of them with an article that has no URL.
C11_Witness ==
    /\ \E i \in StreamRequests \cap Raised : trace[i].status = "500"
    /\ saver # None /\ opts.format = "all"
    /\ remote.pages >= 2 /\ remote.served >= 2
    /\ \E j \in 1..remote.served : Served(remote.served)[j].url = NoUrl

\* The format asks for the file of kind k.
Requested(format, k) == format = "all" \/ format = k

\* C12: constructing a ProgressiveSaver leaves each file its format asks for without
\* any earlier content (the tabular file and the URL list empty, the structured-record
\* file with its opening bracket only), and neither the construction nor a later
\* save_batch or finalize creates or modifies a file the format does not ask for.
C12_TruncatesRequestedFilesOnly ==
    [][/\ \A k \in Kinds : ~Requested(opts.format, k) => files'[k] = files[k]
       /\ pc = "new" =>
             \A k \in Kinds :
                 Requested(opts.format, k) =>
                     files'[k] = IF k = "json" THEN Some(<<Open>>) ELSE Some(<<>>)]_vars

\* C12's case: a saver for the URL list alone, constructed over files of an earlier
\* run, has saved articles and is finalized; the other two files are as they were.
C12_Witness ==
    /\ pc = "finalized" /\ opts.format = "urls"
    /\ Len(Flatten(batches)) >= 2
    /\ files["csv"] = OldFiles["csv"] /\ files["json"] = OldFiles["json"]
    /\ files["urls"] # None /\ Len(Val(files["urls"])) >= 1
    /\ Val(files["urls"])[1] # OldFiles["urls"][1][1]

\* main has ended normally after a fetch, with progressive saving off, that returned
\* at least one article.
BulkSaveDue ==
    /\ opts.no_progressive_save
    /\ pc = "done" /\ exit_code = Some(0)
    /\ returned # None /\ Val(returned) # <<>>

\* Each requested file holds the returned articles and nothing else; the others are
\* as they were before the run.
BulkSaved ==
    /\ Requested(opts.format, "csv") => TableOf(files["csv"], Val(returned))
    /\ Requested(opts.format, "urls") => UrlListOf(files["urls"], Val(returned))
    /\ Requested(opts.format, "json") => WellFormedArray(files["json"], Val(returned))
    /\ \A k \in Kinds : ~Requested(opts.format, k) => files[k] \in {None, OldFiles[k]}

\* C13: with progressive saving off, the only step that creates or modifies an output
\* file is the bulk save of main after get_articles has returned at least one article,
\* and after that step each requested file holds exactly the returned articles and
\* nothing of an earlier run; with progressive saving on, save_articles is never
\* performed.
C13_BulkWriteOnceAtTheEnd ==
    /\ [][(opts.no_progressive_save /\ files' # files) =>
             /\ pc = "returned" /\ pc' = "done" /\ exit_code' = Some(0)
             /\ Val(returned) # <<>>]_vars
    /\ [](BulkSaveDue => BulkSaved)
    /\ [](~opts.no_progressive_save => ~Says("saving_data"))

\* C13's case: a run with progressive saving off has fetched two pages and written the
\* tabular file over the one an earlier run left.
C13_Witness ==
    /\ opts.no_progressive_save /\ opts.format = "csv"
    /\ pc = "done" /\ exit_code = Some(0)
    /\ remote.pages >= 2 /\ Len(Val(returned)) >= 2
    /\ files["json"] = OldFiles["json"]
    /\ TableOf(files["csv"], Val(returned))

\* The URL of an item: its canonical URL when it has a non-empty one, otherwise the
\* href of its first alternate link when it has one, otherwise none.
CanonicalOrFirstHref(data) ==
    IF data.canonicalUrl # None /\ Val(data.canonicalUrl) # NoUrl
    THEN Val(data.canonicalUrl)
    ELSE IF data.alternate # None /\ Len(Val(data.alternate)) >= 1
            /\ Val(data.alternate)[1].href # None
    THEN Val(Val(data.alternate)[1].href)
    ELSE NoUrl

\* C14: after any save_batch calls the URL list holds one line for each saved article
\* with a non-empty URL, in the order saved, and no line for an article without one;
\* an article's URL is its item's canonical URL when non-empty and otherwise the href
\* of the item's first alternate link.
C14_UrlListHasOneLinePerUrl ==
    (saver # None /\ Val(saver).urls_file) =>
        LET saved == Flatten(batches)
            with == {j \in 1..Len(saved) : CanonicalOrFirstHref(RawItem(j)) # NoUrl}
        IN  /\ \A j \in 1..Len(saved) :
                  saved[j].id = j /\ saved[j].url = CanonicalOrFirstHref(RawItem(j))
            /\ files["urls"] # None
            /\ Len(Val(files["urls"])) = Cardinality(with)
            /\ \A j \in with :
                  Val(files["urls"])[Cardinality({i \in with : i <= j})] =
                      <<"url", CanonicalOrFirstHref(RawItem(j))>>

\* C14's case: among the batches saved is one whose only article has no URL, and the
\* list holds a URL taken from an alternate link.
C14_Witness ==
    /\ saver # None /\ Val(saver).urls_file
    /\ \E b \in 1..Len(batches) : Len(batches[b]) = 1 /\ batches[b][1].url = NoUrl
    /\ \E i \in 1..Len(Val(files["urls"])) : Val(files["urls"])[i] = <<"url", <<"href", 3>>>>
    /\ Len(Val(files["urls"])) < Len(Flatten(batches))

\* The names of the fields of an Article (the dataclass of models.py).
FieldNames ==
    {"id", "title", "url", "author", "published_date", "crawled_date", "source_title",
     "source_url", "source_stream_id", "summary", "content", "engagement", "language",
     "keywords", "categories", "tags", "read", "visual_url", "word_count"}

\* C15: to_dict returns a dictionary whose keys are the 19 field names of the Article
\* and whose value at each key is the Article's attribute of that name; a second call
\* returns an equal dictionary, and no call modifies the Article.
C15_ToDictMatchesAttributes ==
    /\ [](\A i \in 1..Len(exported) :
            /\ DOMAIN exported[i] = FieldNames
            /\ Cardinality(DOMAIN exported[i]) = 19
            /\ DOMAIN Val(article) = FieldNames
            /\ \A k \in FieldNames : exported[i][k] = Val(article)[k]
            /\ exported[i] = exported[1])
    /\ [][article' = article]_vars

\* C15's case: to_dict was called twice on an Article whose attributes are not the
\* empty defaults.
C15_Witness ==
    /\ pc = "exported" /\ Len(exported) = 2
    /\ Val(article).read /\ Val(article).engagement = 7 /\ Val(article).word_count = 2
    /\ exported[2]["url"] = "a url"

\* C16: over any save_batch calls with the tabular format requested, the tabular file
\* is empty while every batch was empty, and from the first non-empty batch on it is
\* the header, written once and first, followed by one row per saved article in the
\* order saved, none lost.
C16_HeaderOnceBeforeRows ==
    (saver # None /\ Val(saver).csv_file) =>
        IF Flatten(batches) = <<>>
        THEN files["csv"] = Some(<<>>) /\ ~Val(saver).files_initialized
        ELSE /\ TableOf(files["csv"], Flatten(batches))
             /\ Cardinality({i \in 1..Len(Val(files["csv"])) :
                                 Val(files["csv"])[i] = Header}) = 1
             /\ Val(saver).files_initialized

\* C16's case: an empty batch came first and two non-empty batches followed.
C16_Witness ==
    /\ saver # None /\ Val(saver).csv_file
    /\ Len(batches) >= 3
    /\ batches[1] = <<>> /\ batches[2] # <<>> /\ batches[3] # <<>>
    /\ TableOf(files["csv"], Flatten(batches))

(***************************************************************************)
(* The order of requests, responses and sleeps in the loop.                *)
(***************************************************************************)
Responses == {i \in 1..Len(trace) : trace[i].ev = "response"}
\* The last response read before event i, 0 when there is none.
LastResponseBefore(i) ==
    IF \E j \in Responses : j < i
    THEN CHOOSE j \in Responses : j < i /\ \A k \in Responses : k < i => k <= j
    ELSE 0

\* C17: the first stream-content request of a run carries no continuation token, every
\* later one carries the token of the response read last before it, and after a
\* non-empty response without a token no stream-content request follows.
C17_ContinuationTokenIsThreaded ==
    /\ \A i \in StreamRequests :
          trace[i].params.continuation =
              IF LastResponseBefore(i) = 0 THEN None
              ELSE trace[LastResponseBefore(i)].token
    /\ \A i \in StreamRequests :
          LastResponseBefore(i) # 0 => trace[LastResponseBefore(i)].token # None
    /\ \A j \in Responses :
          (trace[j].items > 0 /\ trace[j].token = None) =>
              \A i \in StreamRequests : i < j

\* C17's case: the second page was requested with the token of the first, the request
\* was answered 429 and re-issued, and the stream ended with a page without token.
C17_Witness ==
    /\ \E i \in StreamRequests :
          /\ trace[i].params.continuation = Some(1)
          /\ trace[i].status = "429"
          /\ i + 2 \in StreamRequests /\ trace[i + 2].params.continuation = Some(1)
    /\ stopped = "end"
    /\ trace[Len(trace)].ev = "response" /\ trace[Len(trace)].token = None

\* The number of articles accumulated from the responses read before event i.
RECURSIVE ItemsBefore(_)
ItemsBefore(i) == IF i <= 1 THEN 0 ELSE ItemsBefore(i - 1) + trace[i - 1].items

\* The sleep the delay policy prescribes after count articles, in tenths of a second
\* times the threshold: the base delay below the threshold, and from the threshold on
\* min(MAX_DELAY, base * min(3, count / threshold)).
PolicyDelay(count) ==
    IF count < PROGRESSIVE_DELAY_THRESHOLD
    THEN opts.api_delay * PROGRESSIVE_DELAY_THRESHOLD
    ELSE Min(MAX_DELAY * PROGRESSIVE_DELAY_THRESHOLD,
             opts.api_delay * Min(3 * PROGRESSIVE_DELAY_THRESHOLD, count))

\* C18 as claimed: every sleep between two pages is at most MAX_DELAY, and it is the
\* base delay while fewer than PROGRESSIVE_DELAY_THRESHOLD articles are accumulated
\* and min(MAX_DELAY, base * min(3, count / threshold)) from then on.
C18_SleepAtMostMaxDelay ==
    \A i \in 1..Len(trace) :
        trace[i].ev = "pause" =>
            /\ trace[i].dur <= MAX_DELAY * PROGRESSIVE_DELAY_THRESHOLD
            /\ trace[i].dur = PolicyDelay(ItemsBefore(i))

\* What holds of the sleeps in place of C18: every sleep between two pages is the
\* base delay while fewer than PROGRESSIVE_DELAY_THRESHOLD articles are accumulated
\* and min(MAX_DELAY, base * min(3, count / threshold)) from then on; it is at most
\* MAX_DELAY from the threshold on and whenever the base delay is at most MAX_DELAY,
\* and never more than the larger of the base delay and MAX_DELAY.
C18_SleepFollowsPolicy ==
    \A i \in 1..Len(trace) :
        trace[i].ev = "pause" =>
            /\ trace[i].dur = PolicyDelay(ItemsBefore(i))
            /\ (ItemsBefore(i) >= PROGRESSIVE_DELAY_THRESHOLD \/ opts.api_delay <= MAX_DELAY)
                  => trace[i].dur <= MAX_DELAY * PROGRESSIVE_DELAY_THRESHOLD
            /\ trace[i].dur <= Max(opts.api_delay, MAX_DELAY) * PROGRESSIVE_DELAY_THRESHOLD

\* C18's case: with a base delay below MAX_DELAY the run slept the base delay below the
\* threshold, an escalated delay under MAX_DELAY at the threshold, and MAX_DELAY once
\* the escalated delay would have exceeded it.
C18_Witness ==
    /\ opts.api_delay < MAX_DELAY
    /\ \E i, j, k \in 1..Len(trace) :
          /\ trace[i].ev = "pause" /\ trace[j].ev = "pause" /\ trace[k].ev = "pause"
          /\ ItemsBefore(i) < PROGRESSIVE_DELAY_THRESHOLD
          /\ trace[i].dur = opts.api_delay * PROGRESSIVE_DELAY_THRESHOLD
          /\ ItemsBefore(j) > PROGRESSIVE_DELAY_THRESHOLD
          /\ trace[i].dur < trace[j].dur
          /\ trace[j].dur < MAX_DELAY * PROGRESSIVE_DELAY_THRESHOLD
          /\ opts.api_delay * ItemsBefore(k) > MAX_DELAY * PROGRESSIVE_DELAY_THRESHOLD
          /\ trace[k].dur = MAX_DELAY * PROGRESSIVE_DELAY_THRESHOLD


\* The events of the trace strictly between positions i and j that are of kind ev.
Between(i, j, ev) == {k \in (i + 1)..(j - 1) : trace[k].ev = ev}

\* Positions i < j of two stream-content requests with none between them.
ConsecutiveStreamRequests ==
    {p \in StreamRequests \X StreamRequests :
        /\ p[1] < p[2]
        /\ \A k \in StreamRequests : ~(p[1] < k /\ k < p[2])}

\* C19: between two consecutive get_stream_content requests exactly one sleep between
\* pages occurs (the request re-issued after a 429 belongs to the request it repeats:
\* the wait for the rate limit stands between the two, and no sleep between pages);
\* no sleep between pages occurs before the first request or after the last one (the
\* request that follows a sleep is still to come while the loop runs, and never comes
\* when KeyboardInterrupt ends the run there); and
\* a request is issued only after the one before it was answered: a 200 is followed by
\* its response, read before the sleep, and only a 429 is followed by a re-issue.
C19_OneSleepBetweenPages ==
    /\ \A p \in ConsecutiveStreamRequests :
          LET i == p[1]
              j == p[2]
          IN  IF trace[i].call # trace[j].call
              THEN /\ trace[i].status = "200"
                   /\ trace[j].call = trace[i].call + 1
                   /\ Cardinality(Between(i, j, "pause")) = 1
                   /\ Cardinality(Between(i, j, "response")) = 1
                   /\ Between(i, j, "wait") = {}
                   /\ trace[i + 1].ev = "response" /\ trace[i + 1].call = trace[i].call
                   /\ trace[i + 2].ev = "pause"
                   /\ j = i + 3
              ELSE /\ trace[i].status = "429"
                   /\ Between(i, j, "pause") = {}
                   /\ Between(i, j, "response") = {}
    /\ \A k \in 1..Len(trace) :
          trace[k].ev = "pause" =>
              /\ \E i \in StreamRequests : i < k
              /\ \/ \E j \in StreamRequests : k < j
                 \/ pc = "get_stream_content"
                 \/ Says("cancelled")

\* C19's case: a finished run of three get_stream_content requests, one of them
\* re-issued after a 429, with two sleeps between pages.
C19_Witness ==
    /\ pc = "done"
    /\ exit_code = Some(0)
    /\ Cardinality(StreamCalls) = 3
    /\ Cardinality(StreamRequests) = 4
    /\ Cardinality({k \in 1..Len(trace) : trace[k].ev = "pause"}) = 2


\* The stream-content requests answered with an HTTP error other than 401 and 429.
OtherErrors == {i \in StreamRequests : trace[i].status \notin {"200", "401", "429"}}

\* C20: when a get_stream_content request of the loop is answered with an HTTP error
\* other than 401 and 429, the error leaves get_articles: nothing is returned (main
\* reports the API error and exits with 1), the failed request is the last event of
\* the run (no further page is requested), and the progressive saver is not finalized
\* (the structured-record file holds the saved pages with no closing bracket).
C20_OtherHttpErrorPropagates ==
    \A i \in OtherErrors :
        /\ i = Len(trace)
        /\ returned = None
        /\ stopped = ""
        /\ pc = "done" /\ exit_code = Some(1) /\ reported = <<"api_error">>
        /\ (saver # None /\ Val(saver).json_file) =>
              OpenArray(files["json"], Served(remote.served))

\* C20's case: the third page request of a progressive run that writes the
\* structured-record file is answered 500 after two pages were saved.
C20_Witness ==
    /\ OtherErrors # {}
    /\ saver # None /\ Val(saver).json_file
    /\ remote.pages = 2 /\ Val(saver).saved_count = 2
    /\ Cardinality(StreamCalls) = 3


\* The session requests of the trace, of every endpoint.
Requests == {i \in 1..Len(trace) : trace[i].ev = "request"}

\* The requests answered with an error status other than 429.
HardErrors == {i \in Requests : trace[i].status \notin {"200", "429"}}

\* C21: a 401, and any error status other than 429, is never retried by _make_request:
\* no wait and no re-issue follow it, so a call whose first request is answered so has
\* issued exactly one request, and the error is raised to the caller (nothing more
\* happens in the call: no response is read and no request of the loop follows).
C21_NoRetryExcept429 ==
    /\ retrying => \E i \in Requests : i = Len(trace) - 1 /\ trace[i].status = "429"
    /\ \A i \in HardErrors :
          /\ i \in Raised
          /\ \A k \in (i + 1)..Len(trace) : trace[k].call # trace[i].call
          /\ (\A k \in 1..(i - 1) : trace[k].call # trace[i].call) =>
                Cardinality({k \in Requests : trace[k].call = trace[i].call}) = 1
          /\ trace[i].url = "/streams/contents" => pc \in {"done", "returned"}

\* C21's case: the second page request of a run is answered 401 at once, and the first
\* page request had been re-issued after a 429.
C21_Witness ==
    /\ \E i \in HardErrors \cap StreamRequests :
          /\ trace[i].status = "401"
          /\ Cardinality({k \in Requests : trace[k].call = trace[i].call}) = 1
          /\ remote.pages = 1
    /\ \E w \in 1..Len(trace) : trace[w].ev = "wait"


\* A folder was asked for and the listing fetched holds none that matches it.
NoFolderMatches == query # None /\ \A i \in 1..Len(cats) : ~PartialAt(i)

LastPageItems == trace[CHOOSE i \in Responses : \A k \in Responses : k <= i].items

\* C23: when the safety ceiling ends the loop, the list returned is everything fetched,
\* not truncated: at least SAFE_ARTICLE_LIMIT articles, and fewer than
\* SAFE_ARTICLE_LIMIT plus the number of items of the last page.
C23_CeilingReturnsUntruncated ==
    (stopped = "ceiling" /\ returned # None) =>
        /\ Val(returned) = Served(remote.served)
        /\ Len(Val(returned)) >= SAFE_ARTICLE_LIMIT
        /\ Len(Val(returned)) < SAFE_ARTICLE_LIMIT + LastPageItems
        /\ ~(TruthyInt(opts.max_articles)
               /\ Len(Val(returned)) >= Val(opts.max_articles))

\* C23's case: with no cap the ceiling ended the loop with more than
\* SAFE_ARTICLE_LIMIT articles.
C23_Witness ==
    /\ stopped = "ceiling" /\ returned # None
    /\ opts.max_articles = None
    /\ Len(Val(returned)) > SAFE_ARTICLE_LIMIT


\* C24: the record's read flag is true exactly when the item carries an unread key
\* equal to false (Python's ==: False, and a number equal to it); an item without the
\* key, with unread true, or with any other value yields read = false.
C24_ReadIffUnreadIsFalse ==
    pc = "converted" =>
        /\ Val(article).read = (Val(item).unread \in {Some(PyFalse), Some(PyZero)})
        /\ Val(item).unread \in {None, Some(PyTrue)} => Val(article).read = FALSE

\* C24's case: an item without the unread key was converted.
C24_Witness ==
    /\ pc = "converted"
    /\ Val(item).unread = None
    /\ Val(article).read = FALSE


\* get_articles returned after the loop was left by one of its breaks.
NormalCompletion ==
    returned # None /\ stopped \in {"empty", "cap", "ceiling", "end"}

C26_SaverMovesForward ==
    IF saver = None THEN lifecycle = <<>>
    ELSE /\ lifecycle # <<>> /\ lifecycle[1] = "__init__"
         /\ \A i \in 2..Len(lifecycle) : lifecycle[i] \in {"save_batch", "finalize"}
         /\ \A i \in 1..Len(lifecycle) : lifecycle[i] = "finalize" => i = Len(lifecycle)
         /\ Cardinality({i \in 1..Len(lifecycle) : lifecycle[i] = "save_batch"})
               = Len(batches)
         /\ Len(batches) = Cardinality({i \in Responses : trace[i].items > 0})
         /\ (stopped \in {"empty", "cap", "ceiling", "end"})
               <=> Last(lifecycle) = "finalize"
         /\ Last(lifecycle) = "finalize" => returned # None

\* C26's case: a progressive run saved two pages and was finalized when a third, empty
\* page ended the loop.
C26_Witness ==
    /\ saver # None /\ stopped = "empty"
    /\ lifecycle = <<"__init__", "save_batch", "save_batch", "finalize">>


\* C27: the loop of get_articles terminates whatever the remote service answers, also
\* when every page carries a continuation token: an iteration that does not end the
\* loop adds at least one article (a request re-issued after a 429 belongs to the
\* iteration of the request it repeats), so at most SAFE_ARTICLE_LIMIT
\* get_stream_content requests are issued, and a run that entered the loop leaves it.
C27_LoopTerminates ==
    /\ [](Cardinality(StreamCalls) <= SAFE_ARTICLE_LIMIT)
    /\ [][(pc = "get_stream_content" /\ pc' = "get_stream_content" /\ ~retrying')
            => Len(all_articles') > Len(all_articles)]_vars
    /\ (pc = "get_stream_content") ~> (pc \in {"returned", "done"})

\* C27's case: against the stream that never runs out, a run without cap issued
\* SAFE_ARTICLE_LIMIT get_stream_content requests and the ceiling ended the loop.
C27_Witness ==
    /\ remote.available = Endless
    /\ opts.max_articles = None
    /\ Cardinality(StreamCalls) = SAFE_ARTICLE_LIMIT
    /\ stopped = "ceiling"


\* C28: whatever the cap (absent, zero, negative or positive) and however the loop
\* ends, the list get_articles returns is a prefix of the items of the pages fetched,
\* in the order fetched: nothing is reordered or repeated, articles are dropped from
\* the tail only, and only when the cap ended the loop.
C28_ReturnedIsPrefixOfFetched ==
    Fetched =>
        /\ Len(Val(returned)) <= remote.served
        /\ \A j \in 1..Len(Val(returned)) :
              Val(returned)[j] = FromFeedlyData(RawItem(j))
        /\ stopped # "cap" => Len(Val(returned)) = remote.served

\* C28's case: a negative cap ended the loop at a first page of two items and the
\* first of them is returned.
C28_Witness ==
    /\ Fetched /\ stopped = "cap"
    /\ opts.max_articles # None /\ Val(opts.max_articles) < 0
    /\ remote.served = 2
    /\ Val(returned) = <<FromFeedlyData(RawItem(1))>>


\* C29: every get_stream_content request carries the stream identifier, the page size
\* and the unread-only flag; a request that carries a continuation token carries
\* neither newerThan nor olderThan, and a request without a token carries newerThan,
\* and olderThan when an upper bound is set.
C29_TimeBoundsOnlyWithoutToken ==
    \A i \in StreamRequests :
        LET p == trace[i].params
        IN  /\ p.streamId = stream_id /\ p.streamId # None
            /\ p.count = Some(PAGE_SIZE)
            /\ p.unreadOnly = Some(IF opts.unread_only THEN "true" ELSE "false")
            /\ IF p.continuation # None
               THEN p.newerThan = None /\ p.olderThan = None
               ELSE /\ p.newerThan = Some(newer_than)
                    /\ p.olderThan = IF TruthyInt(older_than) THEN older_than ELSE None

\* C29's case: a run for unread articles between two dates requested a first page with
\* both bounds and a second page with the token and no bound.
C29_Witness ==
    /\ opts.unread_only /\ older_than # None
    /\ \E i, j \in StreamRequests :
          /\ trace[i].params.continuation = None
          /\ trace[i].params.newerThan # None /\ trace[i].params.olderThan # None
          /\ trace[j].params.continuation # None
          /\ trace[j].params.unreadOnly = Some("true")


\* The position in the log of the call that run r made (0 when it has not).
CallAt(r, call) ==
    IF \E i \in 1..Len(lifecycle) : lifecycle[i] = [run |-> r, call |-> call]
    THEN CHOOSE i \in 1..Len(lifecycle) : lifecycle[i] = [run |-> r, call |-> call]
    ELSE 0

\* Both runs are finalized, and each constructed its saver before the other finalized.
BothFinalized == \A r \in RunIds : runs[r].at = "finalized"
Overlapped ==
    /\ BothFinalized
    /\ CallAt(1, "__init__") < CallAt(2, "finalize")
    /\ CallAt(2, "__init__") < CallAt(1, "finalize")

\* The structured-record file of run r is one well-formed array of the records run r
\* saved.
OwnArray(r) == WellFormedArray(disk[PathOf(r)]["json"], Flatten(runs[r].batches))

\* C30: two runs with the same output prefix are not isolated.  Whenever the two
\* overlap and each saved a record, the file they share is, after both finalized, a
\* well-formed array of neither run's records; and when they do not overlap it holds
\* the records of the run that came last alone.
C30_SharedPrefixNotIsolated ==
    (BothFinalized /\ \A r \in RunIds : Val(runs[r].saver).saved_count > 0) =>
        IF Overlapped
        THEN \A r \in RunIds : ~OwnArray(r)
        ELSE \A r \in RunIds :
                OwnArray(r) <=> CallAt(r, "__init__") > CallAt(3 - r, "finalize")

\* C30's case: run 1 saved a record, then run 2 constructed its saver and truncated
\* the file; run 2 saved a record and both finalized: the file holds run 2's record,
\* none of run 1's, and two closing brackets.
C30_Witness ==
    /\ Overlapped
    /\ runs[1].batches # <<>> /\ runs[2].batches # <<>>
    /\ CallAt(1, "save_batch") < CallAt(2, "__init__")
    /\ disk[PathOf(1)]["json"] =
          Some(<<Open, Obj(Flatten(runs[2].batches)[1]), Close, Close>>)

====
